---- MODULE Spec2Model ----
(***************************************************************************)
(* Model of the Express backend in server/index.js: the session check, the *)
(* folder listing and tree build of GET /api/folders, the upload handler   *)
(* with findMatchingFolder, and the remaining JSON endpoints.              *)
(*                                                                         *)
(* One request is handled at a time; every await of the code is a step of  *)
(* the model, and the remote services (Drive, the completion service)      *)
(* answer each call with success or failure nondeterministically.          *)
(*                                                                         *)
(* Strings whose content the code inspects (folder names, the completion   *)
(* answer, the hint, the file name) are sequences of one-character         *)
(* strings.  An optional value is <<>> (undefined / null) or <<v>>.        *)
(***************************************************************************)
EXTENDS Integers, Sequences, FiniteSets, TLC

VARIABLES
  tokens,          \* req.session.tokens is set
  apiKey,          \* OPENROUTER_API_KEY is configured
  pages,           \* Drive's folder listing, as the pages files.list returns
  driveFiles,      \* Drive's files: file id -> set of parent ids
  pc,              \* position of the request being handled
  endpoint,        \* the route of the request being handled
  hintText,        \* req.body.hint (optional string)
  originalname,    \* req.file.originalname
  allFolders,      \* the accumulated listing
  nextPageToken,   \* optional page token
  createdId,       \* response.data.id of files.create (optional)
  data,            \* the body of the completion reply (optional)
  matchedFolder,   \* result of findMatchingFolder (optional record)
  previousParents, \* file.data.parents fetched before the move
  calls,           \* remote calls issued by the request so far
  response,        \* what res.status(..).json(..) sent
  structure,       \* the folder tree sent by GET /api/folders
  endlessTokens,   \* Drive returns a nextPageToken on every page
  clientPc,        \* position of handleUpload in the browser
  files,           \* Array.from(e.target.files), as file names
  clientHint,      \* hint, hintInput.value.trim()
  fileIndex,       \* i, the index of the loop over files (from 1)
  successCount,    \* uploads the server reported as stored
  errorCount,      \* uploads counted as failed
  movedCount,      \* uploads the server reported as moved
  results,         \* the results array of handleUpload
  sent,            \* files whose upload request was sent, in order
  inFlight,        \* upload requests sent and not yet answered or failed
  uploadHistory,   \* this.uploadHistory, newest entry first
  storedHistory,   \* the 'uploadHistory' item of localStorage
  isAuthenticated, \* this.isAuthenticated
  justLoggedIn,    \* this.justLoggedIn
  view,            \* the view updateUI showed last
  chains           \* the checkAuthStatus chains started by init and the timer

vars == <<tokens, apiKey, pages, driveFiles, pc, endpoint, hintText, originalname,
          allFolders, nextPageToken, createdId, data, matchedFolder,
          previousParents, calls, response, structure, endlessTokens,
          clientPc, files, clientHint, fileIndex, successCount, errorCount, movedCount,
          results, sent, inFlight, uploadHistory, storedHistory,
          isAuthenticated, justLoggedIn, view, chains>>

(***************************************************************************)
(* Bounds of the model.                                                    *)
(***************************************************************************)
MaxPages == 2
MaxFiles == 2
MaxListCalls == 4
MaxBatch == 2
MaxAdds == 11

\* Constants of the program.
maxRetries == 5
HistoryLimit == 10

None == <<>>
Some(v) == <<v>>

(***************************************************************************)
(* String functions of JavaScript, on sequences of characters.             *)
(***************************************************************************)
UpperChars == <<"A","B","C","D","E","F","G","H","I","J","K","L","M",
                "N","O","P","Q","R","S","T","U","V","W","X","Y","Z">>
LowerChars == <<"a","b","c","d","e","f","g","h","i","j","k","l","m",
                "n","o","p","q","r","s","t","u","v","w","x","y","z">>
WhiteSpace == {" ", "\t", "\n"}
Quotes == {"\"", "'"}

IsUpper(c) == \E i \in DOMAIN UpperChars : UpperChars[i] = c
IsLower(c) == \E i \in DOMAIN LowerChars : LowerChars[i] = c

toLowerChar(c) ==
  IF IsUpper(c)
    THEN LowerChars[CHOOSE i \in DOMAIN UpperChars : UpperChars[i] = c]
    ELSE c

RECURSIVE toLowerCase(_)
toLowerCase(s) ==
  IF s = <<>> THEN <<>> ELSE <<toLowerChar(Head(s))>> \o toLowerCase(Tail(s))

RECURSIVE trimStart(_)
trimStart(s) ==
  IF s # <<>> /\ Head(s) \in WhiteSpace THEN trimStart(Tail(s)) ELSE s

RECURSIVE trimEnd(_)
trimEnd(s) ==
  IF s # <<>> /\ s[Len(s)] \in WhiteSpace
    THEN trimEnd(SubSeq(s, 1, Len(s) - 1))
    ELSE s

trim(s) == trimEnd(trimStart(s))

\* s.replace(/^["']|["']$/g, ''): one quote at the start and one at the end.
replaceQuotes(s) ==
  LET a == IF s # <<>> /\ Head(s) \in Quotes THEN Tail(s) ELSE s
  IN  IF a # <<>> /\ a[Len(a)] \in Quotes THEN SubSeq(a, 1, Len(a) - 1) ELSE a

(***************************************************************************)
(* a.localeCompare(b): the primary level compares the letters regardless   *)
(* of case (white space and punctuation sort before letters); names equal  *)
(* at the primary level are ordered by case, lower case first.             *)
(***************************************************************************)
PrimaryOrder == <<"\t", "\n", " ", "'", "\"", ".">> \o LowerChars

primary(c) == CHOOSE i \in DOMAIN PrimaryOrder : PrimaryOrder[i] = toLowerChar(c)

RECURSIVE comparePrimary(_, _)
comparePrimary(a, b) ==
  IF a = <<>> /\ b = <<>> THEN 0
  ELSE IF a = <<>> THEN -1
  ELSE IF b = <<>> THEN 1
  ELSE IF primary(Head(a)) < primary(Head(b)) THEN -1
  ELSE IF primary(Head(a)) > primary(Head(b)) THEN 1
  ELSE comparePrimary(Tail(a), Tail(b))

RECURSIVE compareCase(_, _)
compareCase(a, b) ==
  IF a = <<>> \/ b = <<>> THEN 0
  ELSE IF Head(a) = Head(b) THEN compareCase(Tail(a), Tail(b))
  ELSE IF IsLower(Head(a)) THEN -1
  ELSE 1

localeCompare(a, b) ==
  IF comparePrimary(a, b) # 0 THEN comparePrimary(a, b) ELSE compareCase(a, b)

(***************************************************************************)
(* The tree build of GET /api/folders.  A node is named by its id; the     *)
(* folders array of a node holds references to nodes, here their ids.      *)
(***************************************************************************)
Ids(L) == {L[i].id : i \in DOMAIN L}

LastWithId(L, id) ==
  L[CHOOSE i \in DOMAIN L : L[i].id = id /\ \A j \in DOMAIN L : L[j].id = id => j <= i]

\* First pass: folderMap.set(folder.id, {id, name, parents || ['root'], folders: []})
buildFolderMap(L) ==
  [id \in Ids(L) |->
     LET f == LastWithId(L, id)
     IN  [id |-> f.id, name |-> f.name,
          parents |-> IF f.parents = None THEN <<"root">> ELSE f.parents[1],
          folders |-> <<>>]]

\* Variant: the last declared parent is used (parents[parents.length - 1]).
firstParent_Last(folder) ==
  IF folder.parents = None \/ folder.parents[1] = <<>>
    THEN "root"
    ELSE folder.parents[1][Len(folder.parents[1])]

\* folder.parents?.[0] || 'root'
firstParent(folder) ==
  IF folder.parents = None \/ folder.parents[1] = <<>>
    THEN "root"
    ELSE folder.parents[1][1]

\* Second pass, from record i on: push the node to rootFolders or to the
\* folders of its parent's node.
RECURSIVE attachFolders(_, _, _, _)
attachFolders(L, i, folderMap, rootFolders) ==
  IF i > Len(L) THEN [folderMap |-> folderMap, rootFolders |-> rootFolders]
  ELSE LET folder == L[i]
           parentId == firstParent(folder)
       IN  IF parentId = "root" \/ parentId \notin DOMAIN folderMap
             THEN attachFolders(L, i + 1, folderMap, Append(rootFolders, folder.id))
             ELSE attachFolders(L, i + 1,
                    [folderMap EXCEPT ![parentId].folders = Append(@, folder.id)],
                    rootFolders)

\* list.sort((a, b) => a.name.localeCompare(b.name)): a stable sort.
RECURSIVE insertByName(_, _, _)
insertByName(folderMap, sorted, id) ==
  IF sorted = <<>> THEN <<id>>
  ELSE IF localeCompare(folderMap[Head(sorted)].name, folderMap[id].name) <= 0
    THEN <<Head(sorted)>> \o insertByName(folderMap, Tail(sorted), id)
    ELSE <<id>> \o sorted

\* Variant: the list is left in the order the second pass produced.
sortList_AsListed(folderMap, list) == list

RECURSIVE sortList(_, _)
sortList(folderMap, list) ==
  IF list = <<>> THEN <<>>
  ELSE insertByName(folderMap,
                    sortList(folderMap, SubSeq(list, 1, Len(list) - 1)),
                    list[Len(list)])

\* Variant: only the list passed in is sorted, the recursion is missing.
sortChildren_TopOnly(folderMap, list) == folderMap

\* list.forEach(f => sortFolders(f.folders)), sortFolders sorting its list first.
RECURSIVE sortChildren(_, _)
sortChildren(folderMap, list) ==
  IF list = <<>> THEN folderMap
  ELSE LET f  == Head(list)
           m1 == [folderMap EXCEPT ![f].folders = sortList(folderMap, @)]
           m2 == sortChildren(m1, m1[f].folders)
       IN  sortChildren(m2, Tail(list))

\* The structure sent: { id: 'root', ..., folders: rootFolders }.
buildTree(L) ==
  LET folderMap == buildFolderMap(L)
      attached  == attachFolders(L, 1, folderMap, <<>>)
      sorted    == sortList(attached.folderMap, attached.rootFolders)
  IN  [folders |-> sorted, nodes |-> sortChildren(attached.folderMap, sorted)]

\* The ids in the serialised tree below a list of nodes, in document order.
RECURSIVE flatten(_, _)
flatten(nodes, list) ==
  IF list = <<>> THEN <<>>
  ELSE <<Head(list)>> \o flatten(nodes, nodes[Head(list)].folders)
                      \o flatten(nodes, Tail(list))

(***************************************************************************)
(* The folder listings Drive can hold, and the ways files.list pages them: *)
(* up to m pages, each with at least one record (an empty listing is one   *)
(* empty page).                                                            *)
(***************************************************************************)
FolderRecords(ids, names, parentOpts) ==
  [id : ids, name : names, parents : parentOpts]

Listings(ids, names, parentOpts) ==
  UNION { { L \in [1..n -> FolderRecords(ids, names, parentOpts)] :
              \A i, j \in 1..n : i # j => L[i].id # L[j].id }
          : n \in 0..Cardinality(ids) }

RECURSIVE Paginations(_, _)
Paginations(L, m) ==
  IF m <= 1 THEN {<<L>>}
  ELSE {<<L>>} \cup
       UNION { { <<SubSeq(L, 1, k)>> \o rest :
                   rest \in Paginations(SubSeq(L, k + 1, Len(L)), m - 1) }
               : k \in 1..(Len(L) - 1) }

RECURSIVE concatPages(_)
concatPages(ps) == IF ps = <<>> THEN <<>> ELSE Head(ps) \o concatPages(Tail(ps))

(***************************************************************************)
(* Values of the model: folder ids and names, request inputs, replies of   *)
(* the completion service, error messages of the remote services.          *)
(***************************************************************************)
Invoices      == <<"I","n","v","o","i","c","e","s">>
invoicesLower == <<"i","n","v","o","i","c","e","s">>
Finance       == <<"F","i","n","a","n","c","e">>
NoneName      == <<"N","o","n","e">>
alphaLower    == <<"a","l","p","h","a">>
Beta          == <<"B","e","t","a">>
ReportPdf     == <<"r","e","p","o","r","t",".","p","d","f">>
HintFinance   == <<"f","i","n","a","n","c","e">>
NewFolderName == <<"N","e","w">>

UploadFolderIds   == {"f1", "f2"}
UploadFolderNames == {Invoices, Finance, NoneName}

TreeFolderIds   == {"f1", "f2", "f3"}
TreeFolderNames == {alphaLower, Beta}
TreeParents     == {None, Some(<<"f1">>), Some(<<"f2">>), Some(<<"f3">>),
                    Some(<<"gone">>), Some(<<"gone", "f1">>)}

Hints == {None, Some(<<>>), Some(HintFinance)}
Files == {None, Some(<<>>), Some(ReportPdf)}

\* Text contents the completion service may answer with.
Answers ==
  { <<>>,
    <<"N","O","N","E">>, <<"n","o","n","e">>, <<"\"","N","o","n","e","\"">>,
    Invoices, invoicesLower, <<"I","N","V","O","I","C","E","S">>,
    <<"I","n","v","o","i","c","e">>, <<"n","v","o","i","c","e","s">>,
    <<"I","n","v","o","i","c","e","s","s">>,
    <<"\"">> \o Finance \o <<"\"">>, <<"'">> \o Finance \o <<"'">>,
    <<" ">> \o Finance \o <<"\n">>,
    <<"\"", " ">> \o Finance \o <<" ", "\"">>,
    <<"\"", "\"">> \o Finance \o <<"\"", "\"">>,
    <<"\"">>, <<" ", " ">>,
    <<"M","a","r","k","e","t","i","n","g">> }

\* What arrives as the body of the completion reply.
Replies ==
  [kind : {"unparseable", "nochoices", "nomessage", "nocontent", "nonstring"},
   content : {<<>>}]
  \cup [kind : {"content"}, content : Answers]

DriveErrors == {"Drive request failed"}
AiErrors == {"socket hang up"}

NoResponse ==
  [status |-> 0, success |-> FALSE, moved |-> FALSE, message |-> "",
   file |-> None, name |-> <<>>, suffix |-> "", dest |-> <<>>]

Call(op) ==
  [op |-> op, fileId |-> None, addParents |-> None, removeParents |-> {},
   pageToken |-> None]

\* JavaScript truthiness of an optional string.
Truthy(s) == s # None /\ s[1] # <<>>

(***************************************************************************)
(* getAuthenticatedClient and the catch block every Drive endpoint ends    *)
(* with.                                                                   *)
(***************************************************************************)
getAuthenticatedClient == IF tokens THEN "ok" ELSE "Not authenticated"

catchError(message) ==
  [NoResponse EXCEPT !.status = IF message = "Not authenticated" THEN 401 ELSE 500,
                     !.success = FALSE,
                     !.message = message]

jsonResponse(success, message) ==
  [NoResponse EXCEPT !.status = 200, !.success = success, !.message = message]

\* The page a files.list call with this page token returns.
pageIndex(token) == IF token = None THEN 1 ELSE token[1]
pageFiles(token) ==
  IF pageIndex(token) <= Len(pages) THEN pages[pageIndex(token)] ELSE <<>>
pageNextToken(token) ==
  IF pageIndex(token) < Len(pages) \/ endlessTokens
    THEN Some(pageIndex(token) + 1)
    ELSE None

listCall(token) == [Call("files.list") EXCEPT !.pageToken = token]

lastCall == calls[Len(calls)]

\* Page requests issued by the request being handled.
listRequests == Cardinality({k \in DOMAIN calls : calls[k].op = "files.list"})

(***************************************************************************)
(* Initial states: a session with or without tokens, a configuration with  *)
(* or without the API key, a paged folder listing, an empty Drive, and no  *)
(* request in progress.                                                    *)
(***************************************************************************)
InitRequest ==
  /\ pc = "idle"
  /\ endpoint = ""
  /\ hintText = None
  /\ originalname = <<>>
  /\ allFolders = <<>>
  /\ nextPageToken = None
  /\ createdId = None
  /\ data = None
  /\ matchedFolder = None
  /\ previousParents = {}
  /\ calls = <<>>
  /\ response = NoResponse
  /\ structure = None

\* The two callers of checkAuthStatus(): init and the timer of checkUrlParams.
Chains == {"init", "timer"}

\* A chain that has not been started: its position, its retryCount, the
\* status requests it sent, the answer in flight, the message of its last
\* error and whether it ended in updateUI.
IdleChain ==
  [pc |-> "idle", retryCount |-> 0, requests |-> 0, authenticated |-> FALSE,
   error |-> <<>>, updatedUI |-> FALSE]

\* The page before it is loaded: the history is what localStorage holds and
\* handleUpload is not running.
InitBrowser ==
  /\ uploadHistory = <<>>
  /\ storedHistory = <<>>
  /\ isAuthenticated = FALSE
  /\ justLoggedIn = FALSE
  /\ view = "none"
  /\ chains = [c \in Chains |-> IdleChain]
  /\ clientPc = "idle"
  /\ files = <<>>
  /\ clientHint = <<>>
  /\ fileIndex = 1
  /\ successCount = 0
  /\ errorCount = 0
  /\ movedCount = 0
  /\ results = <<>>
  /\ sent = <<>>
  /\ inFlight = 0

Init ==
  /\ tokens \in BOOLEAN
  /\ apiKey \in BOOLEAN
  /\ \E L \in Listings(UploadFolderIds, UploadFolderNames, {None}) :
       pages \in Paginations(L, MaxPages)
  /\ driveFiles = <<>>
  /\ endlessTokens = FALSE
  /\ InitRequest
  /\ InitBrowser

InitTree ==
  /\ tokens = TRUE
  /\ apiKey = FALSE
  /\ \E L \in Listings(TreeFolderIds, TreeFolderNames, TreeParents) :
       pages \in Paginations(L, MaxPages)
  /\ driveFiles = <<>>
  /\ endlessTokens = FALSE
  /\ InitRequest
  /\ InitBrowser

requestLocals ==
  <<hintText, originalname, createdId, data, matchedFolder, previousParents>>
remote == <<tokens, apiKey, pages, driveFiles, endlessTokens>>
history == <<uploadHistory, storedHistory>>
auth == <<isAuthenticated, justLoggedIn, view, chains>>
browser == <<clientPc, files, clientHint, fileIndex, successCount, errorCount, movedCount,
             results, sent, inFlight, history, auth>>

\* The request ends with this response.
respond(r) ==
  /\ response' = r
  /\ pc' = "done"

(***************************************************************************)
(* GET /api/folders                                                        *)
(***************************************************************************)
FoldersRequest ==
  /\ pc = "idle"
  /\ endpoint' = "GET /api/folders"
  /\ IF getAuthenticatedClient # "ok"
       THEN /\ respond(catchError(getAuthenticatedClient))
            /\ UNCHANGED <<calls, nextPageToken>>
       ELSE /\ pc' = "folders_list"
            /\ nextPageToken' = None
            /\ calls' = Append(calls, listCall(None))
            /\ UNCHANGED response
  /\ allFolders' = <<>>
  /\ UNCHANGED <<browser, remote, requestLocals, structure>>

\* A page arrives with a nextPageToken: the loop requests the next page.
\* Variant: the page's files are not pushed to the accumulated listing.
FoldersListMore_DropsPage ==
  /\ pc = "folders_list"
  /\ listRequests < MaxListCalls
  /\ UNCHANGED endpoint
  /\ pageNextToken(lastCall.pageToken) # None
  /\ allFolders' = allFolders
  /\ nextPageToken' = pageNextToken(lastCall.pageToken)
  /\ calls' = Append(calls, listCall(nextPageToken'))
  /\ UNCHANGED <<browser, remote, requestLocals, pc, response, structure>>

FoldersListMore ==
  /\ pc = "folders_list"
  /\ listRequests < MaxListCalls
  /\ UNCHANGED endpoint
  /\ pageNextToken(lastCall.pageToken) # None
  /\ allFolders' = allFolders \o pageFiles(lastCall.pageToken)
  /\ nextPageToken' = pageNextToken(lastCall.pageToken)
  /\ calls' = Append(calls, listCall(nextPageToken'))
  /\ UNCHANGED <<browser, remote, requestLocals, pc, response, structure>>

\* The last page arrives: the tree is built, sorted and sent.
FoldersListLast ==
  /\ pc = "folders_list"
  /\ UNCHANGED endpoint
  /\ pageNextToken(lastCall.pageToken) = None
  /\ allFolders' = allFolders \o pageFiles(lastCall.pageToken)
  /\ nextPageToken' = None
  /\ structure' = Some(buildTree(allFolders'))
  /\ respond(jsonResponse(TRUE, ""))
  /\ UNCHANGED <<browser, remote, requestLocals, calls>>

\* Variant: a rejected page ends the loop and the tree is built from the
\* pages fetched so far.
FoldersListFail_PartialTree ==
  /\ pc = "folders_list"
  /\ UNCHANGED endpoint
  /\ structure' = Some(buildTree(allFolders))
  /\ respond(jsonResponse(TRUE, ""))
  /\ UNCHANGED <<browser, remote, requestLocals, allFolders, nextPageToken, calls>>

\* files.list rejects: the catch block answers.
FoldersListFail ==
  /\ pc = "folders_list"
  /\ UNCHANGED endpoint
  /\ \E e \in DriveErrors : respond(catchError(e))
  /\ UNCHANGED <<browser, remote, requestLocals, allFolders, nextPageToken, calls, structure>>

\* The response has been sent; the server waits for the next request.
Finish ==
  /\ pc = "done"
  /\ endpoint' = ""
  /\ pc' = "idle"
  /\ hintText' = None
  /\ originalname' = <<>>
  /\ allFolders' = <<>>
  /\ nextPageToken' = None
  /\ createdId' = None
  /\ data' = None
  /\ matchedFolder' = None
  /\ previousParents' = {}
  /\ calls' = <<>>
  /\ response' = NoResponse
  /\ structure' = None
  /\ UNCHANGED <<browser, remote>>

NextTree ==
  \/ FoldersRequest
  \/ FoldersListMore
  \/ FoldersListLast
  \/ FoldersListFail
  \/ Finish

SpecTree == InitTree /\ [][NextTree]_vars

(***************************************************************************)
(* findMatchingFolder: the text compared with the folder names, and the    *)
(* folder the reply selects.                                               *)
(***************************************************************************)
\* response.choices?.[0]?.message?.content?.trim().replace(/^["']|["']$/g, '')
\* (undefined when a link of the chain is missing)
folderNameOf(reply) ==
  IF reply.kind = "content" THEN Some(replaceQuotes(trim(reply.content))) ELSE None

\* hay.includes(needle)
includes(hay, needle) ==
  \E i \in 1..(Len(hay) - Len(needle) + 1) :
    SubSeq(hay, i, i + Len(needle) - 1) = needle

\* Variant: the folder is found by f.name.toLowerCase().includes(...).
findFolder_Includes(folders, folderName) ==
  IF \E i \in DOMAIN folders :
       includes(toLowerCase(folders[i].name), toLowerCase(folderName))
    THEN Some(folders[CHOOSE i \in DOMAIN folders :
                 /\ includes(toLowerCase(folders[i].name), toLowerCase(folderName))
                 /\ \A j \in DOMAIN folders :
                      includes(toLowerCase(folders[j].name), toLowerCase(folderName))
                        => i <= j])
    ELSE None

\* allFolders.find(f => f.name.toLowerCase() === folderName.toLowerCase())
findFolder(folders, folderName) ==
  IF \E i \in DOMAIN folders : toLowerCase(folders[i].name) = toLowerCase(folderName)
    THEN Some(folders[CHOOSE i \in DOMAIN folders :
                 /\ toLowerCase(folders[i].name) = toLowerCase(folderName)
                 /\ \A j \in DOMAIN folders :
                      toLowerCase(folders[j].name) = toLowerCase(folderName) => i <= j])
    ELSE None

\* Variant: an answer that names no folder falls back to the first folder
\* (find(...) || allFolders[0]).
resolveReply_DefaultsToFirst(folders, reply) ==
  IF reply.kind \in {"unparseable", "nonstring"} THEN None
  ELSE IF ~Truthy(folderNameOf(reply)) THEN None
  ELSE IF toLowerCase(folderNameOf(reply)[1]) = <<"n","o","n","e">> THEN None
  ELSE IF findFolder(folders, folderNameOf(reply)[1]) = None THEN Some(folders[1])
  ELSE findFolder(folders, folderNameOf(reply)[1])

\* The 'end' handler of the completion response: JSON.parse or a property
\* access that throws is caught and resolves null.
resolveReply(folders, reply) ==
  IF reply.kind \in {"unparseable", "nonstring"} THEN None
  ELSE IF ~Truthy(folderNameOf(reply)) THEN None
  ELSE IF toLowerCase(folderNameOf(reply)[1]) = <<"n","o","n","e">> THEN None
  ELSE findFolder(folders, folderNameOf(reply)[1])

\* files(id, name): the listing of findMatchingFolder carries no parents.
idAndName(page) == [i \in DOMAIN page |-> [page[i] EXCEPT !.parents = None]]

(***************************************************************************)
(* POST /api/upload                                                        *)
(***************************************************************************)
\* Variant: the note is added whenever a hint field was sent, even empty
\* (hintText !== undefined).
noMatchMessage_AnyHint(hint) ==
  IF hint # None THEN "no matching folder found" ELSE ""

\* moveMessage of the branch without a matched folder
noMatchMessage(hint) == IF Truthy(hint) THEN "no matching folder found" ELSE ""

\* res.json({ success: true, file, moved, message })
uploaded(fileId, name, moved, suffix, dest) ==
  [NoResponse EXCEPT !.status = 200, !.success = TRUE, !.moved = moved,
                     !.message = "uploaded successfully",
                     !.file = fileId, !.name = name,
                     !.suffix = suffix, !.dest = dest]

\* The handler continues with the result of findMatchingFolder being null.
respondNoMatch ==
  respond(uploaded(createdId, originalname, FALSE, noMatchMessage(hintText), <<>>))

UploadRequest ==
  /\ pc = "idle"
  /\ endpoint' = "POST /api/upload"
  /\ Cardinality(DOMAIN driveFiles) < MaxFiles
  /\ \E hint \in Hints, file \in Files :
       IF getAuthenticatedClient # "ok"
         THEN /\ respond(catchError(getAuthenticatedClient))
              /\ UNCHANGED <<hintText, originalname, calls>>
       ELSE IF file = None
         THEN /\ respond([NoResponse EXCEPT !.status = 400,
                                            !.message = "No file provided"])
              /\ hintText' = hint
              /\ UNCHANGED <<originalname, calls>>
         ELSE /\ pc' = "upload_create"
              /\ hintText' = hint
              /\ originalname' = file[1]
              /\ calls' = Append(calls, Call("files.create"))
              /\ UNCHANGED response
  /\ UNCHANGED <<browser, remote, allFolders, nextPageToken, createdId, data,
                 matchedFolder, previousParents, structure>>

\* Variant: the failure of files.create is swallowed and the handler goes on
\* to findMatchingFolder.
UploadCreateFail_Swallowed ==
  /\ pc = "upload_create"
  /\ pc' = "match_list"
  /\ calls' = Append(calls, listCall(None))
  /\ UNCHANGED <<browser, endpoint, remote, requestLocals, allFolders, nextPageToken,
                 response, structure>>

\* drive.files.create rejects.
UploadCreateFail ==
  /\ pc = "upload_create"
  /\ UNCHANGED endpoint
  /\ \E e \in DriveErrors : respond(catchError(e))
  /\ UNCHANGED <<browser, remote, requestLocals, allFolders, nextPageToken, calls, structure>>

\* Variant: findMatchingFolder without its first line, the listing being
\* requested whether or not the API key is configured.
UploadCreateOk_NoKeyCheck ==
  /\ pc = "upload_create"
  /\ UNCHANGED endpoint
  /\ LET id == Cardinality(DOMAIN driveFiles) + 1
     IN  /\ driveFiles' = driveFiles @@ (id :> {"root"})
         /\ createdId' = Some(id)
         /\ IF ~(Truthy(hintText) \/ originalname # <<>>)
              THEN /\ respond(uploaded(Some(id), originalname, FALSE, "", <<>>))
                   /\ UNCHANGED calls
              ELSE /\ pc' = "match_list"
                   /\ calls' = Append(calls, listCall(None))
                   /\ UNCHANGED response
  /\ allFolders' = <<>>
  /\ nextPageToken' = None
  /\ UNCHANGED <<browser, endlessTokens, tokens, apiKey, pages, hintText, originalname, data,
                 matchedFolder, previousParents, structure>>

\* drive.files.create resolves: the file exists at the default location and
\* the handler runs up to the first await of findMatchingFolder.
UploadCreateOk ==
  /\ pc = "upload_create"
  /\ UNCHANGED endpoint
  /\ LET id == Cardinality(DOMAIN driveFiles) + 1
     IN  /\ driveFiles' = driveFiles @@ (id :> {"root"})
         /\ createdId' = Some(id)
         /\ IF ~(Truthy(hintText) \/ originalname # <<>>)
              THEN /\ respond(uploaded(Some(id), originalname, FALSE, "", <<>>))
                   /\ UNCHANGED calls
            ELSE IF ~apiKey
              THEN /\ respond(uploaded(Some(id), originalname, FALSE,
                                       noMatchMessage(hintText), <<>>))
                   /\ UNCHANGED calls
              ELSE /\ pc' = "match_list"
                   /\ calls' = Append(calls, listCall(None))
                   /\ UNCHANGED response
  /\ allFolders' = <<>>
  /\ nextPageToken' = None
  /\ UNCHANGED <<browser, endlessTokens, tokens, apiKey, pages, hintText, originalname, data,
                 matchedFolder, previousParents, structure>>

MatchListMore ==
  /\ pc = "match_list"
  /\ listRequests < MaxListCalls
  /\ UNCHANGED endpoint
  /\ pageNextToken(lastCall.pageToken) # None
  /\ allFolders' = allFolders \o idAndName(pageFiles(lastCall.pageToken))
  /\ nextPageToken' = pageNextToken(lastCall.pageToken)
  /\ calls' = Append(calls, listCall(nextPageToken'))
  /\ UNCHANGED <<browser, remote, requestLocals, pc, response, structure>>

\* Variant: the completion request is sent for an empty listing too.
MatchListLast_NoEmptyCheck ==
  /\ pc = "match_list"
  /\ UNCHANGED endpoint
  /\ pageNextToken(lastCall.pageToken) = None
  /\ allFolders' = allFolders \o idAndName(pageFiles(lastCall.pageToken))
  /\ nextPageToken' = None
  /\ pc' = "match_ai"
  /\ calls' = Append(calls, Call("completion"))
  /\ UNCHANGED <<browser, remote, requestLocals, response, structure>>

\* The last page: an empty listing returns null, otherwise the completion
\* request is sent.
MatchListLast ==
  /\ pc = "match_list"
  /\ UNCHANGED endpoint
  /\ pageNextToken(lastCall.pageToken) = None
  /\ allFolders' = allFolders \o idAndName(pageFiles(lastCall.pageToken))
  /\ nextPageToken' = None
  /\ IF Len(allFolders') = 0
       THEN /\ respondNoMatch
            /\ UNCHANGED calls
       ELSE /\ pc' = "match_ai"
            /\ calls' = Append(calls, Call("completion"))
            /\ UNCHANGED response
  /\ UNCHANGED <<browser, remote, requestLocals, structure>>

\* Variant: findMatchingFolder without its try/catch, the rejection reaching
\* the catch block of the upload handler.
MatchListFail_Throws ==
  /\ pc = "match_list"
  /\ \E e \in DriveErrors : respond(catchError(e))
  /\ UNCHANGED <<browser, endpoint, remote, requestLocals, allFolders, nextPageToken,
                 calls, structure>>

\* files.list rejects inside findMatchingFolder: catch { return null }.
MatchListFail ==
  /\ pc = "match_list"
  /\ UNCHANGED endpoint
  /\ respondNoMatch
  /\ UNCHANGED <<browser, remote, requestLocals, allFolders, nextPageToken, calls, structure>>

\* Variant: the completion request is sent once more after an error.
MatchAiError_Retry ==
  /\ pc = "match_ai"
  /\ Len(calls) < 2 * MaxListCalls
  /\ calls' = Append(calls, Call("completion"))
  /\ UNCHANGED <<browser, endpoint, remote, requestLocals, allFolders,
                 nextPageToken, pc, response, structure>>

\* req.on('error', () => resolve(null))
MatchAiError ==
  /\ pc = "match_ai"
  /\ UNCHANGED endpoint
  /\ respondNoMatch
  /\ UNCHANGED <<browser, remote, requestLocals, allFolders, nextPageToken, calls, structure>>

\* The completion service accepted the request and never answers: neither
\* 'end' nor 'error' is emitted, the request has no timeout, and the promise
\* of findMatchingFolder stays pending.
MatchAiSilent ==
  /\ pc = "match_ai"
  /\ pc' = "match_ai_pending"
  /\ UNCHANGED <<browser, endpoint, remote, requestLocals, allFolders,
                 nextPageToken, calls, response, structure>>

\* res.on('end'): the reply is parsed and resolved; with a folder the
\* handler fetches the file's parents.
MatchAiEnd ==
  /\ pc = "match_ai"
  /\ UNCHANGED endpoint
  /\ \E reply \in Replies :
       /\ data' = Some(reply)
       /\ matchedFolder' = resolveReply(allFolders, reply)
       /\ IF matchedFolder' = None
            THEN /\ respondNoMatch
                 /\ UNCHANGED calls
            ELSE /\ pc' = "upload_get"
                 /\ calls' = Append(calls, [Call("files.get") EXCEPT !.fileId = createdId])
                 /\ UNCHANGED response
  /\ UNCHANGED <<browser, remote, hintText, originalname, createdId, previousParents,
                 allFolders, nextPageToken, structure>>

\* Variant: the move is requested without removeParents.
UploadGetOk_KeepsParents ==
  /\ pc = "upload_get"
  /\ lastCall.fileId[1] \in DOMAIN driveFiles
  /\ previousParents' = driveFiles[lastCall.fileId[1]]
  /\ calls' = Append(calls, [Call("files.update") EXCEPT
                               !.fileId = createdId,
                               !.addParents = Some(matchedFolder[1].id)])
  /\ pc' = "upload_move"
  /\ UNCHANGED <<browser, endpoint, remote, hintText, originalname, createdId, data,
                 matchedFolder, allFolders, nextPageToken, response, structure>>

\* drive.files.get resolves: the move is requested.
UploadGetOk ==
  /\ pc = "upload_get"
  /\ UNCHANGED endpoint
  /\ lastCall.fileId[1] \in DOMAIN driveFiles
  /\ previousParents' = driveFiles[lastCall.fileId[1]]
  /\ calls' = Append(calls, [Call("files.update") EXCEPT
                               !.fileId = createdId,
                               !.addParents = Some(matchedFolder[1].id),
                               !.removeParents = previousParents'])
  /\ pc' = "upload_move"
  /\ UNCHANGED <<browser, remote, hintText, originalname, createdId, data, matchedFolder,
                 allFolders, nextPageToken, response, structure>>

\* Variant: the catch block rolls the upload back, deleting the stored file.
UploadGetFail_Rollback ==
  /\ pc = "upload_get"
  /\ \E e \in DriveErrors : respond(catchError(e))
  /\ driveFiles' = [id \in DOMAIN driveFiles \ {createdId[1]} |-> driveFiles[id]]
  /\ UNCHANGED <<browser, endlessTokens, endpoint, tokens, apiKey, pages, requestLocals, allFolders,
                 nextPageToken, calls, structure>>

UploadGetFail ==
  /\ pc = "upload_get"
  /\ UNCHANGED endpoint
  /\ \E e \in DriveErrors : respond(catchError(e))
  /\ UNCHANGED <<browser, remote, requestLocals, allFolders, nextPageToken, calls, structure>>

\* What Drive makes of a file's parents on files.update.
parentsAfterUpdate(parents, addParents, removeParents) ==
  (parents \ removeParents) \cup {addParents[1]}

\* drive.files.update resolves: Drive has moved the file.
UploadMoveOk ==
  /\ pc = "upload_move"
  /\ UNCHANGED endpoint
  /\ lastCall.fileId[1] \in DOMAIN driveFiles
  /\ driveFiles' = [driveFiles EXCEPT ![lastCall.fileId[1]] =
                      parentsAfterUpdate(@, lastCall.addParents, lastCall.removeParents)]
  /\ respond(uploaded(createdId, originalname, TRUE, "moved to", matchedFolder[1].name))
  /\ UNCHANGED <<browser, endlessTokens, tokens, apiKey, pages, requestLocals, allFolders, nextPageToken,
                 calls, structure>>

UploadMoveFail ==
  /\ pc = "upload_move"
  /\ UNCHANGED endpoint
  /\ \E e \in DriveErrors : respond(catchError(e))
  /\ UNCHANGED <<browser, remote, requestLocals, allFolders, nextPageToken, calls, structure>>

(***************************************************************************)
(* POST /api/folders                                                       *)
(***************************************************************************)
NewFolderParents == {"root", "f1"}

createFolderCall(parentId) ==
  [Call("files.create") EXCEPT
     !.addParents = IF parentId # "root" THEN Some(parentId) ELSE None]

CreateFolderRequest ==
  /\ pc = "idle"
  /\ endpoint' = "POST /api/folders"
  /\ "new" \notin Ids(concatPages(pages))
  /\ IF getAuthenticatedClient # "ok"
       THEN /\ respond(catchError(getAuthenticatedClient))
            /\ UNCHANGED calls
       ELSE /\ pc' = "mkdir_create"
            /\ \E parentId \in NewFolderParents :
                 calls' = Append(calls, createFolderCall(parentId))
            /\ UNCHANGED response
  /\ UNCHANGED <<browser, remote, requestLocals, allFolders, nextPageToken, structure>>

\* Drive has created the folder: later listings return it on the last page.
CreateFolderOk ==
  /\ pc = "mkdir_create"
  /\ UNCHANGED endpoint
  /\ pages' = [pages EXCEPT ![Len(pages)] =
                 Append(@, [id |-> "new", name |-> NewFolderName,
                            parents |-> IF lastCall.addParents = None
                                          THEN None
                                          ELSE Some(lastCall.addParents)])]
  /\ respond(jsonResponse(TRUE, "Folder created!"))
  /\ UNCHANGED <<browser, endlessTokens, tokens, apiKey, driveFiles, requestLocals, allFolders,
                 nextPageToken, calls, structure>>

CreateFolderFail ==
  /\ pc = "mkdir_create"
  /\ UNCHANGED endpoint
  /\ \E e \in DriveErrors : respond(catchError(e))
  /\ UNCHANGED <<browser, remote, requestLocals, allFolders, nextPageToken, calls, structure>>

(***************************************************************************)
(* POST /api/files/move                                                    *)
(***************************************************************************)
MoveTargets == {"root", "f1"}

MoveFileRequest ==
  /\ pc = "idle"
  /\ endpoint' = "POST /api/files/move"
  /\ IF getAuthenticatedClient # "ok"
       THEN /\ respond(catchError(getAuthenticatedClient))
            /\ UNCHANGED <<calls, createdId, matchedFolder>>
       ELSE /\ pc' = "move_get"
            /\ \E fileId \in 1..MaxFiles, newParentId \in MoveTargets :
                 /\ createdId' = Some(fileId)
                 /\ matchedFolder' =
                      Some([id |-> newParentId, name |-> <<>>, parents |-> None])
                 /\ calls' = Append(calls, [Call("files.get") EXCEPT
                                              !.fileId = Some(fileId)])
            /\ UNCHANGED response
  /\ UNCHANGED <<browser, remote, hintText, originalname, data, previousParents,
                 allFolders, nextPageToken, structure>>

MoveFileGetOk ==
  /\ pc = "move_get"
  /\ UNCHANGED endpoint
  /\ lastCall.fileId[1] \in DOMAIN driveFiles
  /\ previousParents' = driveFiles[lastCall.fileId[1]]
  /\ calls' = Append(calls, [Call("files.update") EXCEPT
                               !.fileId = createdId,
                               !.addParents = Some(matchedFolder[1].id),
                               !.removeParents = previousParents'])
  /\ pc' = "move_update"
  /\ UNCHANGED <<browser, remote, hintText, originalname, createdId, data, matchedFolder,
                 allFolders, nextPageToken, response, structure>>

MoveFileGetFail ==
  /\ pc = "move_get"
  /\ UNCHANGED endpoint
  /\ \E e \in DriveErrors : respond(catchError(e))
  /\ UNCHANGED <<browser, remote, requestLocals, allFolders, nextPageToken, calls, structure>>

MoveFileUpdateOk ==
  /\ pc = "move_update"
  /\ UNCHANGED endpoint
  /\ lastCall.fileId[1] \in DOMAIN driveFiles
  /\ driveFiles' = [driveFiles EXCEPT ![lastCall.fileId[1]] =
                      parentsAfterUpdate(@, lastCall.addParents, lastCall.removeParents)]
  /\ respond(jsonResponse(TRUE, "File moved!"))
  /\ UNCHANGED <<browser, endlessTokens, tokens, apiKey, pages, requestLocals, allFolders, nextPageToken,
                 calls, structure>>

MoveFileUpdateFail ==
  /\ pc = "move_update"
  /\ UNCHANGED endpoint
  /\ \E e \in DriveErrors : respond(catchError(e))
  /\ UNCHANGED <<browser, remote, requestLocals, allFolders, nextPageToken, calls, structure>>

(***************************************************************************)
(* GET /api/files/search                                                   *)
(***************************************************************************)
SearchRequest ==
  /\ pc = "idle"
  /\ endpoint' = "GET /api/files/search"
  /\ IF getAuthenticatedClient # "ok"
       THEN /\ respond(catchError(getAuthenticatedClient))
            /\ UNCHANGED calls
       ELSE /\ pc' = "search_list"
            /\ calls' = Append(calls, Call("files.list"))
            /\ UNCHANGED response
  /\ UNCHANGED <<browser, remote, requestLocals, allFolders, nextPageToken, structure>>

SearchOk ==
  /\ pc = "search_list"
  /\ UNCHANGED endpoint
  /\ respond(jsonResponse(TRUE, ""))
  /\ UNCHANGED <<browser, remote, requestLocals, allFolders, nextPageToken, calls, structure>>

SearchFail ==
  /\ pc = "search_list"
  /\ UNCHANGED endpoint
  /\ \E e \in DriveErrors : respond(catchError(e))
  /\ UNCHANGED <<browser, remote, requestLocals, allFolders, nextPageToken, calls, structure>>

(***************************************************************************)
(* GET /api/files/latest                                                   *)
(***************************************************************************)
LatestRequest ==
  /\ pc = "idle"
  /\ endpoint' = "GET /api/files/latest"
  /\ IF getAuthenticatedClient # "ok"
       THEN /\ respond(catchError(getAuthenticatedClient))
            /\ UNCHANGED calls
       ELSE /\ pc' = "latest_list"
            /\ calls' = Append(calls, Call("files.list"))
            /\ UNCHANGED response
  /\ UNCHANGED <<browser, remote, requestLocals, allFolders, nextPageToken, structure>>

\* The listing holds the most recently modified file, or nothing.
LatestListOk ==
  /\ pc = "latest_list"
  /\ UNCHANGED endpoint
  /\ IF DOMAIN driveFiles = {}
       THEN /\ respond(jsonResponse(FALSE, "No files found"))
            /\ UNCHANGED calls
       ELSE \E fileId \in DOMAIN driveFiles :
              IF driveFiles[fileId] # {}
                THEN /\ pc' = "latest_get"
                     /\ calls' = Append(calls, Call("files.get"))
                     /\ UNCHANGED response
                ELSE /\ respond(jsonResponse(TRUE, ""))
                     /\ UNCHANGED calls
  /\ UNCHANGED <<browser, remote, requestLocals, allFolders, nextPageToken, structure>>

LatestListFail ==
  /\ pc = "latest_list"
  /\ UNCHANGED endpoint
  /\ \E e \in DriveErrors : respond(catchError(e))
  /\ UNCHANGED <<browser, remote, requestLocals, allFolders, nextPageToken, calls, structure>>

\* The parent's name arrives, or the lookup fails and 'My Drive' is kept.
LatestGetDone ==
  /\ pc = "latest_get"
  /\ UNCHANGED endpoint
  /\ respond(jsonResponse(TRUE, ""))
  /\ UNCHANGED <<browser, remote, requestLocals, allFolders, nextPageToken, calls, structure>>

(***************************************************************************)
(* POST /api/chat                                                          *)
(***************************************************************************)
\* The 'end' handler of the chat completion.
chatAnswer(reply) ==
  IF reply.kind \in {"unparseable", "nomessage"}
    THEN jsonResponse(FALSE, "Parse error")
  ELSE IF reply.kind = "nochoices"
    THEN jsonResponse(FALSE, "AI error")
    ELSE jsonResponse(TRUE, "")

ChatRequest ==
  /\ pc = "idle"
  /\ endpoint' = "POST /api/chat"
  /\ \E hasMessages \in BOOLEAN :
       IF ~apiKey
         THEN /\ respond(jsonResponse(FALSE, "AI not configured"))
              /\ UNCHANGED calls
       ELSE IF ~hasMessages
         THEN /\ respond(jsonResponse(FALSE, "messages is not iterable"))
              /\ UNCHANGED calls
         ELSE /\ pc' = "chat_ai"
              /\ calls' = Append(calls, Call("completion"))
              /\ UNCHANGED response
  /\ UNCHANGED <<browser, remote, requestLocals, allFolders, nextPageToken, structure>>

ChatAiEnd ==
  /\ pc = "chat_ai"
  /\ UNCHANGED endpoint
  /\ \E reply \in Replies :
       /\ data' = Some(reply)
       /\ respond(chatAnswer(reply))
  /\ UNCHANGED <<browser, remote, hintText, originalname, createdId, matchedFolder,
                 previousParents, allFolders, nextPageToken, calls, structure>>

\* aiReq.on('error', (e) => res.json({ success: false, message: e.message }))
ChatAiError ==
  /\ pc = "chat_ai"
  /\ UNCHANGED endpoint
  /\ \E e \in AiErrors : respond(jsonResponse(FALSE, e))
  /\ UNCHANGED <<browser, remote, requestLocals, allFolders, nextPageToken, calls, structure>>

Next ==
  \/ FoldersRequest
  \/ FoldersListMore
  \/ FoldersListLast
  \/ FoldersListFail
  \/ UploadRequest
  \/ UploadCreateFail
  \/ UploadCreateOk
  \/ MatchListMore
  \/ MatchListLast
  \/ MatchListFail
  \/ MatchAiError
  \/ MatchAiSilent
  \/ MatchAiEnd
  \/ UploadGetOk
  \/ UploadGetFail
  \/ UploadMoveOk
  \/ UploadMoveFail
  \/ CreateFolderRequest
  \/ CreateFolderOk
  \/ CreateFolderFail
  \/ MoveFileRequest
  \/ MoveFileGetOk
  \/ MoveFileGetFail
  \/ MoveFileUpdateOk
  \/ MoveFileUpdateFail
  \/ SearchRequest
  \/ SearchOk
  \/ SearchFail
  \/ LatestRequest
  \/ LatestListOk
  \/ LatestListFail
  \/ LatestGetDone
  \/ ChatRequest
  \/ ChatAiEnd
  \/ ChatAiError
  \/ Finish

Spec == Init /\ [][Next]_vars

\* The upload endpoint alone.  Every step of the handler that is enabled is
\* eventually taken: the event loop runs a continuation once the awaited call
\* has settled.
NextUpload ==
  \/ UploadRequest
  \/ UploadCreateFail
  \/ UploadCreateOk
  \/ MatchListMore
  \/ MatchListLast
  \/ MatchListFail
  \/ MatchAiError
  \/ MatchAiSilent
  \/ MatchAiEnd
  \/ UploadGetOk
  \/ UploadGetFail
  \/ UploadMoveOk
  \/ UploadMoveFail
  \/ Finish

SpecLive == Init /\ [][NextUpload]_vars /\ WF_vars(NextUpload)

\* The two endpoints that list folders, against a Drive that may return a
\* nextPageToken on every page: beyond its last page it returns empty pages,
\* each with a token for the next.
InitPaging ==
  /\ tokens = TRUE
  /\ apiKey = TRUE
  /\ \E L \in Listings(UploadFolderIds, UploadFolderNames, {None}) :
       pages \in Paginations(L, MaxPages)
  /\ driveFiles = <<>>
  /\ endlessTokens \in BOOLEAN
  /\ InitRequest
  /\ InitBrowser

NextPaging ==
  \/ FoldersRequest
  \/ FoldersListMore
  \/ FoldersListLast
  \/ FoldersListFail
  \/ NextUpload

SpecPaging == InitPaging /\ [][NextPaging]_vars

(***************************************************************************)
(* The browser: handleUpload of frontend/app.js.  The files of a batch are  *)
(* numbered; the server's answer to each upload is one of the outcomes the *)
(* handler distinguishes.                                                  *)
(***************************************************************************)
server == <<remote, requestLocals, pc, endpoint, allFolders, nextPageToken,
            calls, response, structure>>

IsInjective(f) == \A a \in DOMAIN f, b \in DOMAIN f : f[a] = f[b] => a = b

\* e.target.files: up to MaxBatch different files, in the order selected.
Batches ==
  {fs \in UNION {[1..n -> 1..MaxBatch] : n \in 0..MaxBatch} : IsInjective(fs)}

\* hintInput.value
HintInputs == {<<>>, <<" ">>, HintFinance}

\* The head of the for loop with i = k: the upload of files[k] is sent, or
\* the loop is over and the function runs to its end.
loop(k, fl) ==
  /\ fileIndex' = k
  /\ IF k <= Len(files)
       THEN /\ clientPc' = "fetch"
            /\ sent' = Append(sent, files[k])
            /\ inFlight' = fl + 1
       ELSE /\ clientPc' = "finished"
            /\ sent' = sent
            /\ inFlight' = fl

\* errorCount++ and the failed entry pushed to results, in the catch block
\* (error.message) and in the else branch (result.message).
catchUpload(error) ==
  /\ errorCount' = errorCount + 1
  /\ results' = Append(results, [file |-> files[fileIndex], success |-> FALSE,
                                  error |-> error])

\* The entries added to the history so far: an entry (the file the server
\* stored, with its uploadedAt) is named by its place in the order of adding.
historyAdds == IF uploadHistory = <<>> THEN 0 ELSE uploadHistory[1]

\* this.uploadHistory.unshift(entry), then slice(0, 10) above ten entries.
unshiftAndSlice(list) ==
  LET unshifted == <<historyAdds + 1>> \o list
  IN  IF Len(unshifted) > HistoryLimit
        THEN SubSeq(unshifted, 1, HistoryLimit)
        ELSE unshifted

\* addToHistory(file), localStorage.setItem included.
addToHistory ==
  /\ uploadHistory' = unshiftAndSlice(uploadHistory)
  /\ storedHistory' = uploadHistory'

\* The change event of the file input: no file or an empty hint returns at
\* once, otherwise the first upload is sent.
HandleUpload ==
  /\ clientPc = "idle"
  /\ \E fs \in Batches, value \in HintInputs :
       /\ historyAdds + Len(fs) <= MaxAdds
       /\ files' = fs
       /\ clientHint' = IF Len(fs) = 0 THEN <<>> ELSE trim(value)
       /\ IF Len(fs) = 0 \/ trim(value) = <<>>
            THEN /\ clientPc' = "finished"
                 /\ UNCHANGED <<sent, inFlight>>
            ELSE /\ clientPc' = "fetch"
                 /\ sent' = <<fs[1]>>
                 /\ inFlight' = 1
  /\ UNCHANGED <<fileIndex, successCount, errorCount, movedCount, results, server, auth, history>>

\* Variant: a failed upload ends the loop (break in the catch block).
FetchRejects_Breaks ==
  /\ clientPc = "fetch"
  /\ catchUpload("Failed to fetch")
  /\ clientPc' = "finished"
  /\ inFlight' = inFlight - 1
  /\ UNCHANGED <<files, clientHint, fileIndex, sent, successCount, movedCount, server, auth, history>>

\* await fetch(..) rejects: the request failed.
FetchRejects ==
  /\ clientPc = "fetch"
  /\ catchUpload("Failed to fetch")
  /\ loop(fileIndex + 1, inFlight - 1)
  /\ UNCHANGED <<files, clientHint, successCount, movedCount, server, auth, history>>

\* await fetch(..) resolves: the body is read next.
FetchResolves ==
  /\ clientPc = "fetch"
  /\ clientPc' = "json"
  /\ UNCHANGED <<files, clientHint, fileIndex, successCount, errorCount,
                 movedCount, results, sent, inFlight, server, auth, history>>

\* await res.json() rejects: the body is not JSON.
JsonRejects ==
  /\ clientPc = "json"
  /\ catchUpload("Unexpected token")
  /\ loop(fileIndex + 1, inFlight - 1)
  /\ UNCHANGED <<files, clientHint, successCount, movedCount, server, auth, history>>

\* result.success: the file is counted and added to the history.
UploadSucceeded ==
  /\ clientPc = "json"
  /\ \E moved \in BOOLEAN :
       movedCount' = IF moved THEN movedCount + 1 ELSE movedCount
  /\ successCount' = successCount + 1
  /\ addToHistory
  /\ results' = Append(results, [file |-> files[fileIndex], success |-> TRUE,
                                  error |-> ""])
  /\ loop(fileIndex + 1, inFlight - 1)
  /\ UNCHANGED <<files, clientHint, errorCount, server, auth>>

\* result.success, and addToHistory throws after the counters were raised
\* (localStorage.setItem can throw): the catch block counts the file again.
UploadSucceededThrows ==
  /\ clientPc = "json"
  /\ \E moved \in BOOLEAN :
       movedCount' = IF moved THEN movedCount + 1 ELSE movedCount
  /\ successCount' = successCount + 1
  /\ uploadHistory' = unshiftAndSlice(uploadHistory)
  /\ UNCHANGED storedHistory
  /\ catchUpload("QuotaExceededError")
  /\ loop(fileIndex + 1, inFlight - 1)
  /\ UNCHANGED <<files, clientHint, server, auth>>

\* !result.success: the server answered with an error.
UploadRefused ==
  /\ clientPc = "json"
  /\ \E message \in DriveErrors \cup {"Not authenticated"} : catchUpload(message)
  /\ loop(fileIndex + 1, inFlight - 1)
  /\ UNCHANGED <<files, clientHint, successCount, movedCount, server, auth, history>>

\* handleUpload has returned; the page waits for the next selection.
HandleUploadEnd ==
  /\ clientPc = "finished"
  /\ clientPc' = "idle"
  /\ files' = <<>>
  /\ clientHint' = <<>>
  /\ fileIndex' = 1
  /\ successCount' = 0
  /\ errorCount' = 0
  /\ movedCount' = 0
  /\ results' = <<>>
  /\ sent' = <<>>
  /\ inFlight' = 0
  /\ UNCHANGED <<server, auth, history>>

InitClient ==
  /\ tokens = TRUE
  /\ apiKey = FALSE
  /\ pages = <<<<>>>>
  /\ driveFiles = <<>>
  /\ endlessTokens = FALSE
  /\ InitRequest
  /\ InitBrowser

NextClient ==
  \/ HandleUpload
  \/ FetchRejects
  \/ FetchResolves
  \/ JsonRejects
  \/ UploadSucceeded
  \/ UploadSucceededThrows
  \/ UploadRefused
  \/ HandleUploadEnd

SpecClient == InitClient /\ [][NextClient]_vars

(***************************************************************************)
(* GET /oauth/callback and GET /api/auth/status of server/index.js.        *)
(***************************************************************************)
\* res.redirect(`${redirectUrl}${query}`)
redirect(query) == [NoResponse EXCEPT !.status = 302, !.message = query]

OAuthErrors == {"invalid_grant"}

\* The callback arrives: without a code it redirects at once, otherwise the
\* code is sent to Google.
OAuthCallbackRequest ==
  /\ pc = "idle"
  /\ endpoint' = "GET /oauth/callback"
  /\ \E code \in {None, Some("code")} :
       IF code = None
         THEN /\ respond(redirect("?error=no_code"))
              /\ UNCHANGED calls
         ELSE /\ pc' = "oauth_token"
              /\ calls' = Append(calls, Call("getToken"))
              /\ UNCHANGED response
  /\ UNCHANGED <<browser, remote, requestLocals, allFolders, nextPageToken, structure>>

\* oauth2Client.getToken rejects: the catch block redirects with the error.
OAuthTokenFail ==
  /\ pc = "oauth_token"
  /\ \E e \in OAuthErrors : respond(redirect("?error=" \o e))
  /\ UNCHANGED <<browser, endpoint, remote, requestLocals, allFolders,
                 nextPageToken, calls, structure>>

\* getToken resolves: req.session.tokens = tokens; req.session.save(..)
OAuthTokenOk ==
  /\ pc = "oauth_token"
  /\ pc' = "oauth_save"
  /\ calls' = Append(calls, Call("session.save"))
  /\ UNCHANGED <<browser, endpoint, remote, requestLocals, allFolders,
                 nextPageToken, response, structure>>

\* The save callback runs without error: the store holds the tokens.
OAuthSaveOk ==
  /\ pc = "oauth_save"
  /\ tokens' = TRUE
  /\ respond(redirect("?auth=success"))
  /\ UNCHANGED <<browser, endpoint, apiKey, pages, driveFiles, endlessTokens,
                 requestLocals, allFolders, nextPageToken, calls, structure>>

\* The save callback runs with err: the error is logged and the same redirect
\* is sent; the store has not taken the tokens.
OAuthSaveErr ==
  /\ pc = "oauth_save"
  /\ UNCHANGED tokens
  /\ respond(redirect("?auth=success"))
  /\ UNCHANGED <<browser, endpoint, apiKey, pages, driveFiles, endlessTokens,
                 requestLocals, allFolders, nextPageToken, calls, structure>>

(***************************************************************************)
(* The browser: init, checkUrlParams and checkAuthStatus of                *)
(* frontend/app.js.  A chain is one call of checkAuthStatus() with the     *)
(* retries it schedules; the answer of a status request is fixed when the  *)
(* server handles it and reaches the page later.                           *)
(***************************************************************************)
upload == <<clientPc, files, clientHint, fileIndex, successCount, errorCount,
            movedCount, results, sent, inFlight>>

FailedToFetch == <<"F","a","i","l","e","d"," ","t","o"," ","f","e","t","c","h">>
NetworkText == <<"N","e","t","w","o","r","k">>

\* error.message of what checkAuthStatus catches: the rejections of fetch in
\* the browsers, the error thrown for !res.ok, the rejection of res.json().
StatusErrors ==
  { FailedToFetch,
    NetworkText \o <<"E","r","r","o","r">>,
    <<"L","o","a","d"," ","f","a","i","l","e","d">>,
    <<"H","T","T","P"," ","5","0","2">> }

\* Variant: retryCount <= maxRetries.
mayRetry_Inclusive(c) == chains[c].retryCount <= maxRetries

\* retryCount < maxRetries
mayRetry(c) == chains[c].retryCount < maxRetries

\* setTimeout(() => this.checkAuthStatus(retryCount + 1), 1500); return
scheduleRetry(c, message) ==
  chains' = [chains EXCEPT ![c].pc = "timer", ![c].retryCount = @ + 1,
                           ![c].error = message]

\* this.updateUI() at the end of a chain.
updateUI(c, message) ==
  /\ chains' = [chains EXCEPT ![c].pc = "done", ![c].error = message,
                              ![c].updatedUI = TRUE]
  /\ view' = IF isAuthenticated' THEN "authenticated" ELSE "login"

\* The constructor and init(): checkUrlParams sets justLoggedIn and the
\* 1-second timer on ?auth=success, then checkAuthStatus() sends its request.
PageLoad ==
  /\ chains["init"].pc = "idle"
  /\ \E authParam \in {"success", "none"} :
       /\ justLoggedIn' = (authParam = "success")
       /\ chains' = [c \in Chains |->
                       IF c = "init"
                         THEN [IdleChain EXCEPT !.pc = "fetch", !.requests = 1]
                       ELSE IF authParam = "success"
                         THEN [IdleChain EXCEPT !.pc = "timer"]
                         ELSE IdleChain]
  /\ isAuthenticated' = FALSE
  /\ uploadHistory' = storedHistory
  /\ UNCHANGED <<server, upload, storedHistory, view>>

\* A timer fires: checkAuthStatus(retryCount) sends its status request.
TimerFires ==
  \E c \in Chains :
    /\ chains[c].pc = "timer"
    /\ chains' = [chains EXCEPT ![c].pc = "fetch", ![c].requests = @ + 1,
                                ![c].error = <<>>]
    /\ UNCHANGED <<server, upload, history, isAuthenticated, justLoggedIn, view>>

\* The server handles GET /api/auth/status: { authenticated: hasTokens }.
StatusAnswered ==
  \E c \in Chains :
    /\ chains[c].pc = "fetch"
    /\ chains' = [chains EXCEPT ![c].pc = "reply", ![c].authenticated = tokens]
    /\ UNCHANGED <<server, upload, history, isAuthenticated, justLoggedIn, view>>

\* await res.json() resolves: the answer is taken over, an unauthenticated
\* answer after a login is retried, otherwise the chain ends in updateUI.
StatusReceived ==
  \E c \in Chains :
    /\ chains[c].pc = "reply"
    /\ isAuthenticated' = chains[c].authenticated
    /\ IF chains[c].authenticated
         THEN /\ justLoggedIn' = FALSE
              /\ updateUI(c, <<>>)
       ELSE IF mayRetry(c) /\ justLoggedIn
         THEN /\ scheduleRetry(c, <<>>)
              /\ UNCHANGED <<justLoggedIn, view>>
         ELSE /\ justLoggedIn' =
                   IF justLoggedIn /\ chains[c].retryCount >= maxRetries
                     THEN FALSE
                     ELSE justLoggedIn
              /\ updateUI(c, <<>>)
    /\ UNCHANGED <<server, upload, history>>

\* fetch rejects, the response is not ok, or its body is not JSON: the catch
\* block retries or gives up.
StatusFails ==
  \E c \in Chains, message \in StatusErrors :
    /\ chains[c].pc \in {"fetch", "reply"}
    /\ IF mayRetry(c) /\ (\/ justLoggedIn
                          \/ includes(message, FailedToFetch)
                          \/ includes(message, NetworkText))
         THEN /\ scheduleRetry(c, message)
              /\ UNCHANGED <<isAuthenticated, justLoggedIn, view>>
         ELSE /\ isAuthenticated' = FALSE
              /\ justLoggedIn' = FALSE
              /\ updateUI(c, message)
    /\ UNCHANGED <<server, upload, history>>

InitAuth ==
  /\ tokens \in BOOLEAN
  /\ apiKey = FALSE
  /\ pages = <<<<>>>>
  /\ driveFiles = <<>>
  /\ endlessTokens = FALSE
  /\ InitRequest
  /\ InitBrowser

NextAuth ==
  \/ OAuthCallbackRequest
  \/ OAuthTokenFail
  \/ OAuthTokenOk
  \/ OAuthSaveOk
  \/ OAuthSaveErr
  \/ Finish
  \/ PageLoad
  \/ TimerFires
  \/ StatusAnswered
  \/ StatusReceived
  \/ StatusFails

SpecAuth == InitAuth /\ [][NextAuth]_vars

\* Timers fire, the server answers a request it was sent, and an answer that
\* arrived is handled.
SpecAuthLive ==
  SpecAuth /\ WF_vars(TimerFires \/ StatusAnswered \/ StatusReceived)

(***************************************************************************)
(* Properties.                                                             *)
(***************************************************************************)
Occurrences(seq, x) == Cardinality({i \in DOMAIN seq : seq[i] = x})

InUpload == endpoint = "POST /api/upload"

\* The store step of the upload succeeded.
Stored == InUpload /\ createdId # None

CallsOf(op) == {i \in DOMAIN calls : calls[i].op = op}

\* Equality of two strings regardless of letter case, character by character.
EqualIgnoringCase(a, b) ==
  /\ Len(a) = Len(b)
  /\ \A i \in 1..Len(a) : toLowerChar(a[i]) = toLowerChar(b[i])

\* The text of the reply that is compared with the folder names.
cleanedAnswer == replaceQuotes(trim(data[1].content))

\* C1: for every listing with unique ids, whatever its parent references
\* (self-parent and cycles included), the tree sent by GET /api/folders holds
\* every record exactly once, each reachable from the root.
C1_TreeHoldsEveryRecordOnce ==
  (pc = "done" /\ structure # None) =>
    \A id \in Ids(allFolders) :
      Occurrences(flatten(structure[1].nodes, structure[1].folders), id) = 1

\* The resolver of this upload ended in a failure: a listing page failed, the
\* completion request failed, or its reply could not be used.
ResolverFailed ==
  /\ Stored
  /\ pc = "done"
  /\ Len(calls) >= 2
  /\ \/ lastCall.op = "files.list"
     \/ lastCall.op = "completion" /\ data = None
     \/ lastCall.op = "completion" /\ data # None /\ data[1].kind # "content"

\* C2: findMatchingFolder never rejects to the upload handler: when a listing
\* page fails, the completion request fails or the reply is unparseable or
\* lacks choices/content, it yields null and the upload, its store step having
\* succeeded, answers success:true, moved:false.
C2_ResolverFailureGivesNoMatch ==
  ResolverFailed =>
    /\ matchedFolder = None
    /\ response.status = 200
    /\ response.success
    /\ ~response.moved

C2_Witness ==
  /\ ResolverFailed
  /\ lastCall.op = "files.list"
  /\ Len(allFolders) > 0
  /\ response.success

\* C3: whenever files.create succeeded the upload answers success:true, also
\* when the resolver, the fetch of the parents or the move fails.
C3_StoredUploadAnswersSuccess ==
  (Stored /\ pc = "done") => (response.success /\ response.status = 200)

\* C4: once the store step succeeded, a failure of the resolver, the parent
\* fetch or the move leaves the stored file in Drive with exactly the parents
\* it was created with.
C4_FailureKeepsStoredFile ==
  (Stored /\ pc = "done" /\ (ResolverFailed \/ ~response.success)) =>
    /\ createdId[1] \in DOMAIN driveFiles
    /\ driveFiles[createdId[1]] = {"root"}

C4_Witness ==
  /\ Stored
  /\ pc = "done"
  /\ ~response.success
  /\ lastCall.op = "files.update"
  /\ driveFiles[createdId[1]] = {"root"}

\* C5: with a matched folder the upload issues one move, on the id files.create
\* returned, adding the folder's id and removing all current parents of the
\* file; after the move the file's parents are exactly {folder.id} and the
\* response has success:true, moved:true and names the destination.
C5_MatchedUploadMovesFile ==
  InUpload =>
    /\ Cardinality(CallsOf("files.update")) <= 1
    /\ \A i \in CallsOf("files.update") :
         /\ Stored
         /\ matchedFolder # None
         /\ calls[i].fileId = createdId
         /\ calls[i].addParents = Some(matchedFolder[1].id)
         /\ pc = "upload_move" => calls[i].removeParents = driveFiles[createdId[1]]
    /\ pc = "upload_move" => Cardinality(CallsOf("files.update")) = 1
    /\ (pc = "done" /\ matchedFolder # None /\ response.success) =>
         /\ Cardinality(CallsOf("files.update")) = 1
         /\ driveFiles[createdId[1]] = {matchedFolder[1].id}
         /\ response.status = 200
         /\ response.moved
         /\ response.suffix = "moved to"
         /\ response.dest = matchedFolder[1].name

C5_Witness ==
  /\ InUpload
  /\ pc = "done"
  /\ response.moved
  /\ createdId = Some(2)
  /\ driveFiles[1] = {"root"}
  /\ driveFiles[2] = {matchedFolder[1].id}

\* C6: when the resolver returns null the upload issues no parent fetch and no
\* move, the file keeps its default parents, the response has success:true and
\* moved:false, and the message carries the "no matching folder" note exactly
\* when a non-empty hint was sent.
C6_NoMatchLeavesFile ==
  (Stored /\ pc = "done" /\ matchedFolder = None
     /\ (Truthy(hintText) \/ originalname # <<>>)) =>
    /\ CallsOf("files.get") = {}
    /\ CallsOf("files.update") = {}
    /\ driveFiles[createdId[1]] = {"root"}
    /\ response.status = 200
    /\ response.success
    /\ ~response.moved
    /\ (response.suffix = "no matching folder found") <=>
         (hintText # None /\ Len(hintText[1]) > 0)
    /\ response.suffix \in {"", "no matching folder found"}

C6_Witness ==
  /\ Stored
  /\ pc = "done"
  /\ matchedFolder = None
  /\ data # None
  /\ data[1].kind = "content"
  /\ hintText = Some(HintFinance)
  /\ response.suffix = "no matching folder found"

\* C7: when files.create fails the request ends with a success:false error
\* response and no listing, completion, parent fetch or move call is issued.
C7_FailedStoreStops ==
  (InUpload /\ createdId = None) =>
    /\ Len(calls) <= 1
    /\ \A i \in DOMAIN calls : calls[i].op = "files.create"
    /\ (pc = "done" /\ Len(calls) = 1) =>
         /\ ~response.success
         /\ response.status = 500
         /\ response.message \in DriveErrors

C7_Witness ==
  /\ InUpload
  /\ pc = "done"
  /\ createdId = None
  /\ Len(calls) = 1
  /\ ~response.success

\* C8: the resolver returns at most one folder, and returns a folder only when
\* it is a record of the listing whose whole name equals the cleaned answer
\* regardless of letter case; a prefix, substring or near-spelling never matches.
C8_MatchIsWholeNameIgnoringCase ==
  (InUpload /\ matchedFolder # None) =>
    /\ Len(matchedFolder) = 1
    /\ data # None
    /\ data[1].kind = "content"
    /\ \E i \in DOMAIN allFolders : allFolders[i] = matchedFolder[1]
    /\ EqualIgnoringCase(matchedFolder[1].name, cleanedAnswer)

C8_Witness ==
  /\ InUpload
  /\ matchedFolder # None
  /\ matchedFolder[1].name = Invoices
  /\ data[1].content = <<"I","N","V","O","I","C","E","S">>

\* C9: the resolver returns null whenever the cleaned answer is empty, equals
\* "none" in any letter case, or equals no folder name of the listing; none of
\* these throws or selects a folder.
C9_UnusableAnswerGivesNoMatch ==
  (InUpload /\ data # None /\ data[1].kind = "content"
     /\ \/ cleanedAnswer = <<>>
        \/ EqualIgnoringCase(cleanedAnswer, <<"n","o","n","e">>)
        \/ \A i \in DOMAIN allFolders :
             ~EqualIgnoringCase(allFolders[i].name, cleanedAnswer)) =>
    /\ matchedFolder = None
    /\ pc = "done"
    /\ response.success
    /\ ~response.moved

C9_Witness ==
  /\ InUpload
  /\ pc = "done"
  /\ data # None
  /\ data[1].content = <<"N","O","N","E">>
  /\ \E i \in DOMAIN allFolders : allFolders[i].name = NoneName
  /\ matchedFolder = None
  /\ response.success

\* C10: every endpoint called with a session without tokens answers 401 with
\* {success:false, message:"Not authenticated"} and calls neither Drive nor
\* the completion service; every other failure answers 500.
C10_UnauthenticatedIs401 ==
  /\ (pc # "idle" /\ ~tokens) =>
       /\ calls = <<>>
       /\ pc = "done"
       /\ response.status = 401
       /\ ~response.success
       /\ response.message = "Not authenticated"
  /\ (pc = "done" /\ tokens /\ ~response.success) => response.status = 500

\* The tree sent by GET /api/folders.
TreeSent == pc = "done" /\ structure # None
sentFolders == structure[1].folders
sentNodes == structure[1].nodes

\* A list of nodes is in ascending name order under the comparator.
Ascending(nodes, list) ==
  \A i \in 1..(Len(list) - 1) :
    localeCompare(nodes[list[i]].name, nodes[list[i + 1]].name) <= 0

\* C11: in the tree sent, the children of the root and of every node at every
\* depth are in ascending name order: adjacent siblings a, b have
\* a.name.localeCompare(b.name) <= 0.
C11_SiblingsAscendAtEveryDepth ==
  TreeSent =>
    /\ Ascending(sentNodes, sentFolders)
    /\ \A i \in DOMAIN flatten(sentNodes, sentFolders) :
         Ascending(sentNodes, sentNodes[flatten(sentNodes, sentFolders)[i]].folders)

\* A node below the root whose two children arrived in descending order.
C11_Witness ==
  /\ TreeSent
  /\ \E i \in DOMAIN allFolders, j \in DOMAIN allFolders :
       /\ i < j
       /\ allFolders[i].name = Beta
       /\ allFolders[j].name = alphaLower
       /\ \E p \in DOMAIN sentNodes :
            /\ p \notin {allFolders[i].id, allFolders[j].id}
            /\ Occurrences(sentFolders, p) = 1
            /\ sentNodes[p].folders = <<allFolders[j].id, allFolders[i].id>>

\* The lists a record's node was pushed to: the root list or a node's folders.
AttachedToRoot(id) == Occurrences(sentFolders, id)
AttachedTo(p, id) == Occurrences(sentNodes[p].folders, id)

\* The record declares no parent, or its first parent is no record's id.
DeclaresNoListedParent(f) ==
  \/ f.parents = None
  \/ f.parents[1] = <<>>
  \/ f.parents[1][1] \notin Ids(allFolders)

\* C12: a record is a direct child of the root if it declares no parent or its
\* first declared parent is not the id of a record of the listing; otherwise it
\* is attached under its first declared parent's node and nowhere else.  Later
\* parents are ignored and no record is dropped.
C12_AttachedByFirstParent ==
  TreeSent =>
    /\ DOMAIN sentNodes = Ids(allFolders)
    /\ \A k \in DOMAIN allFolders :
         LET f == allFolders[k]
         IN  IF DeclaresNoListedParent(f)
               THEN /\ AttachedToRoot(f.id) = 1
                    /\ \A p \in DOMAIN sentNodes : AttachedTo(p, f.id) = 0
               ELSE /\ AttachedToRoot(f.id) = 0
                    /\ AttachedTo(f.parents[1][1], f.id) = 1
                    /\ \A p \in DOMAIN sentNodes \ {f.parents[1][1]} :
                         AttachedTo(p, f.id) = 0

\* A record whose first parent is not listed and whose second parent is.
C12_Witness ==
  /\ TreeSent
  /\ \E k \in DOMAIN allFolders :
       /\ allFolders[k].parents = Some(<<"gone", "f1">>)
       /\ "f1" \in Ids(allFolders)
       /\ AttachedToRoot(allFolders[k].id) = 1
       /\ AttachedTo("f1", allFolders[k].id) = 0

\* C13: every upload request eventually receives a response; when the
\* completion service accepts the request and never answers, the resolver
\* still yields no match and the upload answers success:true with the file
\* where it was stored.
C13_UploadIsAlwaysAnswered ==
  (InUpload /\ pc # "done") ~> (pc = "done" /\ response # NoResponse)

\* C14: with an empty folder listing the resolver returns no match for every
\* hint and file name, and no completion request is sent.
C14_EmptyListingGivesNoMatch ==
  (InUpload /\ concatPages(pages) = <<>>) =>
    /\ CallsOf("completion") = {}
    /\ CallsOf("files.update") = {}
    /\ matchedFolder = None
    /\ (pc = "done" /\ Stored) => (response.success /\ ~response.moved)

\* An upload with a hint answered after the listing came back empty.
C14_Witness ==
  /\ InUpload
  /\ pc = "done"
  /\ apiKey
  /\ concatPages(pages) = <<>>
  /\ Truthy(hintText)
  /\ Stored
  /\ lastCall.op = "files.list"
  /\ response.success
  /\ response.suffix = noMatchMessage(hintText)

\* C15: without OPENROUTER_API_KEY the resolver returns no match at once: no
\* folder listing request, no completion request, and the upload answers
\* success:true, moved:false.
C15_NoKeyGivesNoMatchAtOnce ==
  (InUpload /\ ~apiKey) =>
    /\ CallsOf("files.list") = {}
    /\ CallsOf("completion") = {}
    /\ matchedFolder = None
    /\ (pc = "done" /\ Stored) =>
         (response.status = 200 /\ response.success /\ ~response.moved)

\* An upload with a hint and folders in Drive, answered without the key.
C15_Witness ==
  /\ InUpload
  /\ pc = "done"
  /\ ~apiKey
  /\ Stored
  /\ Truthy(hintText)
  /\ concatPages(pages) # <<>>
  /\ calls = <<Call("files.create")>>
  /\ response.success

InFolders == endpoint = "GET /api/folders"

\* C17: when files.list fails on any page, GET /api/folders sends no further
\* page request and answers success:false with the error message (500, or 401
\* without a session); a tree is sent only for a listing fetched to its end.
C17_FailedListingSendsNoTree ==
  (InFolders /\ pc = "done") =>
    IF response.success
      THEN /\ structure # None
           /\ allFolders = concatPages(pages)
           /\ listRequests = Len(pages)
      ELSE /\ structure = None
           /\ \/ /\ response.status = 401
                 /\ response.message = "Not authenticated"
                 /\ calls = <<>>
              \/ /\ response.status = 500
                 /\ response.message \in DriveErrors
                 /\ lastCall.op = "files.list"
                 /\ listRequests = pageIndex(lastCall.pageToken)

\* The second page failed after the first had been accumulated.
C17_Witness ==
  /\ InFolders
  /\ pc = "done"
  /\ response.status = 500
  /\ allFolders # <<>>
  /\ listRequests = 2
  /\ structure = None

\* The place of each remote call in the upload handler.
callRank(op) ==
  CASE op = "files.create" -> 1
    [] op = "files.list"   -> 2
    [] op = "completion"   -> 3
    [] op = "files.get"    -> 4
    [] op = "files.update" -> 5

\* The call the handler is waiting for at each await.
awaited ==
  CASE pc = "upload_create" -> "files.create"
    [] pc = "match_list" -> "files.list"
    [] pc \in {"match_ai", "match_ai_pending"} -> "completion"
    [] pc = "upload_get" -> "files.get"
    [] pc = "upload_move" -> "files.update"
    [] OTHER -> ""

\* C19: within one upload request the remote calls occur in the order create,
\* folder-list pages, completion, parent fetch, move; a call is issued only
\* when the one before has settled, the completion service is called at most
\* once, and no call is issued again after it failed.
C19_UploadCallsInOrder ==
  InUpload =>
    /\ \A a \in DOMAIN calls, b \in DOMAIN calls :
         a < b =>
           IF calls[a].op = "files.list" /\ calls[b].op = "files.list"
             THEN pageIndex(calls[a].pageToken) < pageIndex(calls[b].pageToken)
             ELSE callRank(calls[a].op) < callRank(calls[b].op)
    /\ calls # <<>> => calls[1].op = "files.create"
    /\ Cardinality(CallsOf("completion")) <= 1
    /\ awaited # "" => lastCall.op = awaited

\* An upload that went through all five kinds of call, with two pages.
C19_Witness ==
  /\ InUpload
  /\ pc = "done"
  /\ response.moved
  /\ Len(calls) = 6
  /\ Cardinality(CallsOf("files.list")) = 2

\* The page requests of the request being handled, in order.
listCalls == SelectSeq(calls, LAMBDA c : c.op = "files.list")

\* The listing loop of the request has ended on a page without a token.
ListingEnded ==
  \/ InFolders /\ pc = "done" /\ response.success
  \/ InUpload /\ CallsOf("completion") # {}

\* C20: for a finite chain of k pages a listing issues exactly k page
\* requests, the first without a token and each later one with the token the
\* page before returned, and the accumulated listing is the k pages
\* concatenated in order.
C20_ListingFollowsTheChain ==
  ((InFolders \/ InUpload) /\ ~endlessTokens) =>
    /\ \A k \in DOMAIN listCalls :
         listCalls[k].pageToken =
           IF k = 1 THEN None ELSE pageNextToken(listCalls[k - 1].pageToken)
    /\ Len(listCalls) <= Len(pages)
    /\ ListingEnded =>
         /\ Len(listCalls) = Len(pages)
         /\ allFolders = IF InUpload THEN idAndName(concatPages(pages))
                                     ELSE concatPages(pages)

\* A listing of two pages fetched to its end by GET /api/folders.
C20_Witness ==
  /\ InFolders
  /\ pc = "done"
  /\ response.success
  /\ Len(pages) = 2
  /\ Len(allFolders) = 2
  /\ listCalls[2].pageToken = Some(2)

\* C16: each folder pagination loop (GET /api/folders and findMatchingFolder)
\* stops after a bounded number of page requests, even when Drive returns a
\* continuation token on every page: the loop is over before its
\* MaxListCalls-th page request.
C16_ListingLoopIsBounded ==
  pc \in {"folders_list", "match_list"} => listRequests < MaxListCalls

\* C18: handleUpload uploads the files of a batch one at a time in the order
\* they were selected: the request for a file is sent only when the outcome
\* of the file before has been handled, at most one upload request of the
\* batch is in flight, and a failing file does not keep later files from
\* being uploaded.
C18_OneUploadAtATime ==
  /\ inFlight <= 1
  /\ Len(sent) <= Len(files)
  /\ sent = SubSeq(files, 1, Len(sent))
  /\ Len(results) + inFlight = Len(sent)
  /\ \A k \in DOMAIN results : results[k].file = files[k]
  /\ (clientPc = "finished" /\ clientHint # <<>>) => sent = files

\* A batch of two files, not in numeric order, whose first upload failed
\* and whose second succeeded.
C18_Witness ==
  /\ clientPc = "finished"
  /\ files = <<2, 1>>
  /\ sent = files
  /\ Len(results) = 2
  /\ ~results[1].success
  /\ results[2].success

\* The listings holding the same records as L in another order.
Reorderings(L) ==
  {[k \in DOMAIN L |-> L[p[k]]] :
     p \in {q \in [DOMAIN L -> DOMAIN L] : IsInjective(q)}}

\* What a tree serialises to: the root's children and, for every node below
\* the root, its name and children.
Serialised(t) ==
  [folders |-> t.folders,
   nodes |-> [id \in {flatten(t.nodes, t.folders)[k] :
                        k \in DOMAIN flatten(t.nodes, t.folders)} |->
                [name |-> t.nodes[id].name, folders |-> t.nodes[id].folders]]]

\* No two neighbours in a sorted list of siblings have equal names.
NoTie(nodes, list) ==
  \A k \in 1..(Len(list) - 1) :
    localeCompare(nodes[list[k]].name, nodes[list[k + 1]].name) # 0

NoSiblingTies(t) ==
  /\ NoTie(t.nodes, t.folders)
  /\ \A id \in DOMAIN Serialised(t).nodes : NoTie(t.nodes, t.nodes[id].folders)

\* C21: two listings holding the same folder records in a different order, in
\* which no two siblings have equal names, give identical trees.
C21_TreeIgnoresListingOrder ==
  (TreeSent /\ NoSiblingTies(structure[1])) =>
    \A L \in Reorderings(allFolders) :
      Serialised(buildTree(L)) = Serialised(structure[1])

\* Three records without sibling ties whose root children arrived in
\* descending order.
C21_Witness ==
  /\ TreeSent
  /\ NoSiblingTies(structure[1])
  /\ Len(allFolders) = 3
  /\ Len(sentFolders) = 2
  /\ \E a \in DOMAIN allFolders, b \in DOMAIN allFolders :
       /\ a < b
       /\ sentFolders = <<allFolders[b].id, allFolders[a].id>>

\* A text without white space or a quote character at either end.
IsBare(text) ==
  \/ text = <<>>
  \/ /\ text[1] \notin WhiteSpace \cup Quotes
     /\ text[Len(text)] \notin WhiteSpace \cup Quotes

\* C22: for every raw completion answer, the text the resolver compares with
\* the folder names has no leading or trailing white space and no leading or
\* trailing quote character, also for an answer with white space inside its
\* quotes or wrapped in more than one quote character.
C22_ComparedTextIsBare ==
  (InUpload /\ data # None /\ data[1].kind = "content") => IsBare(cleanedAnswer)

\* A retry of chain c is scheduled in this step.
RetryScheduled(c) == chains'[c].retryCount = chains[c].retryCount + 1

\* Chain c ends in this step.
ChainEnds(c) == chains[c].pc # "done" /\ chains'[c].pc = "done"

\* The message of a rejected fetch that stands for a network error.
IsNetworkError(message) ==
  message \in {FailedToFetch, NetworkText \o <<"E","r","r","o","r">>}

\* C23: a checkAuthStatus chain sends at most maxRetries + 1 = 6 status
\* requests; it sends a request again only after an unauthenticated answer
\* while justLoggedIn is set, or after an error that is a network error or
\* occurs while justLoggedIn is set; and it always ends, in updateUI with
\* justLoggedIn false.
C23_RetryChainIsBounded ==
  /\ [](\A c \in Chains :
          /\ chains[c].requests <= maxRetries + 1
          /\ chains[c].pc \in {"fetch", "reply", "done"} =>
               chains[c].requests = chains[c].retryCount + 1)
  /\ [][\A c \in Chains :
          /\ RetryScheduled(c) =>
               /\ chains[c].retryCount < maxRetries
               /\ \/ /\ chains[c].pc = "reply"
                     /\ ~chains[c].authenticated
                     /\ chains'[c].error = <<>>
                     /\ justLoggedIn
                  \/ /\ chains'[c].error # <<>>
                     /\ justLoggedIn \/ IsNetworkError(chains'[c].error)
          /\ ChainEnds(c) =>
               /\ chains'[c].updatedUI
               /\ view' \in {"login", "authenticated"}
               /\ ~justLoggedIn']_vars
  /\ \A c \in Chains :
       (chains[c].pc \in {"timer", "fetch", "reply"}) ~> (chains[c].pc = "done")

\* A chain that used all its retries after a login: six requests, then the
\* login view.
C23_Witness ==
  \E c \in Chains :
    /\ chains[c].pc = "done"
    /\ chains[c].requests = maxRetries + 1
    /\ chains[c].updatedUI
    /\ ~justLoggedIn
    /\ view = "login"

\* Every chain that was started has ended.
ChainsFinished ==
  /\ chains["init"].pc = "done"
  /\ chains["timer"].pc \in {"idle", "done"}

\* C24: after a login redirect the chains of init and of the timer share
\* isAuthenticated and justLoggedIn; under every interleaving, once all chains
\* have finished, if the session is authenticated and some status answer
\* handled by the page said authenticated:true, the page ends with
\* isAuthenticated true and the authenticated view shown.  Stated for the
\* runs in which no chain ended in an error.
C24_LateAnswerKeepsAuthenticatedView ==
  (/\ ChainsFinished
   /\ tokens
   /\ \A c \in Chains : chains[c].error = <<>>
   /\ \E c \in Chains : chains[c].pc = "done" /\ chains[c].authenticated) =>
    (isAuthenticated /\ view = "authenticated")

InCallback == endpoint = "GET /oauth/callback"

\* C25: GET /oauth/callback redirects with auth=success only if the code was
\* exchanged for tokens, the tokens were put in the session and the session
\* save completed without error; with no code or a failed exchange it
\* redirects with an error parameter and leaves the session's tokens as they
\* were.
C25_SuccessRedirectMeansSessionSaved ==
  /\ (InCallback /\ pc = "done") =>
       IF response.message = "?auth=success"
         THEN /\ tokens
              /\ calls = <<Call("getToken"), Call("session.save")>>
         ELSE /\ response.status = 302
              /\ \/ response.message = "?error=no_code" /\ calls = <<>>
                 \/ /\ response.message \in {"?error=" \o e : e \in OAuthErrors}
                    /\ calls = <<Call("getToken")>>
  /\ (InCallback /\ pc # "done") => response = NoResponse

\* handleUpload went through its loop and reached its end.
BatchFinished == clientPc = "finished" /\ clientHint # <<>> /\ files # <<>>

\* C26: when handleUpload has finished a batch of n files, successCount +
\* errorCount = n with every file counted once, as a success or as an error,
\* and movedCount <= successCount, for every outcome per file, an exception
\* thrown after the server reported success included.
C26_EveryFileCountedOnce ==
  BatchFinished =>
    /\ successCount + errorCount = Len(files)
    /\ Len(results) = Len(files)
    /\ successCount = Cardinality({k \in DOMAIN results : results[k].success})
    /\ errorCount = Cardinality({k \in DOMAIN results : ~results[k].success})
    /\ movedCount <= successCount

\* The history holds at most ten entries, the newest first and none missing
\* between the newest and the oldest kept.
HistoryIsRecentFirst ==
  /\ Len(uploadHistory) <= HistoryLimit
  /\ \A k \in DOMAIN uploadHistory : uploadHistory[k] = historyAdds - k + 1
  /\ Len(uploadHistory) = IF historyAdds < HistoryLimit THEN historyAdds
                                                         ELSE HistoryLimit

\* C27: after any sequence of addToHistory calls uploadHistory holds at most
\* 10 entries, most recent first, the oldest evicted first, and the
\* 'uploadHistory' item of localStorage equals the list in memory.
C27_HistoryIsBoundedAndStored ==
  /\ HistoryIsRecentFirst
  /\ storedHistory = uploadHistory

====
